---- MODULE Spec2Model ----
(***************************************************************************)
(* Model of the kb-ai-service retrieval core:                              *)
(*   EmbeddingService.chunk_text        (embedding_service.py)             *)
(*   SearchService._generate_snippet    (search_service.py)                *)
(*   AIService.answer_question, _parse_answer_response,                    *)
(*   _calculate_confidence              (ai_service.py)                    *)
(*   SearchService.initialize, cleanup, index_article, delete_article,     *)
(*   search_similar, search_articles, _build_filter_conditions and their   *)
(*   route handlers                     (search_service.py, api/search.py) *)
(*   EmbeddingService.initialize, cleanup, generate_embedding,             *)
(*   generate_embeddings                (embedding_service.py)             *)
(*   lifespan                           (main.py)                          *)
(*   init_db, get_db_pool, close_db     (core/database.py)                 *)
(* Strings are sequences of one-character strings.  Python positions are   *)
(* kept 0-based, as in the source; a position p is the element p + 1 of    *)
(* the TLA+ sequence.                                                      *)
(***************************************************************************)
EXTENDS Integers, Sequences, FiniteSets, TLC

VARIABLES
    \* ---- EmbeddingService.chunk_text ----
    text,          \* argument text
    arg_chunk_size,\* argument chunk_size (0 stands for None or 0: both falsy)
    arg_overlap,   \* argument overlap    (0 stands for None or 0: both falsy)
    chunk_size,    \* local chunk_size after the default is applied
    overlap,       \* local overlap after the default is applied
    start,         \* the cursor
    chunks,        \* the list of chunks built so far / returned
    windows,       \* history: normalised [lo, hi) slice bounds of every appended chunk
    iters,         \* history: number of loop iterations executed
    chunk_pc,      \* "idle", "call", "loop", "done"
    \* ---- SearchService._generate_snippet ----
    content,       \* argument content
    query,         \* argument query
    max_length,    \* argument max_length
    pos,           \* local pos (-1 also while the search has not run)
    snip_start,    \* local start (0 on the paths that do not compute it)
    snip_end,      \* local end   (0 on the paths that do not compute it)
    snippet,       \* the returned string
    snip_pc,       \* "idle", "call", "done"
    \* ---- AIService._calculate_confidence ----
    conf_response, \* argument response
    conf_phrase,   \* history: the phrase the response was built around (<<>>: none)
    conf_sources,  \* argument sources
    confidence,    \* the returned confidence, a fraction [num, den]
    conf_pc,       \* "idle", "call", "done"
    \* ---- AIService.answer_question ----
    question,         \* argument question
    context_articles, \* argument context_articles
    http_client,      \* self.http_client: "none", "open", "closed"
    ai_response,      \* local ai_response, the text the provider generated
    ai_phrase,        \* history: the phrase ai_response was built around
    ai_body,          \* history: length of ai_response without its outer spaces
    failure,          \* history: the step that raised, "none" when none did
    answer,           \* the returned AnswerResponse
    ans_pc,           \* "idle", "call", "awaiting", "done", "raised"
    \* ---- SearchService and the routes of api/search.py ----
    qdrant_client,     \* self.qdrant_client: "none" (None) or "open"
    embedding_service, \* self.embedding_service: "none" (None) or "set"
    collection,        \* the points of the collection kb_articles in the vector index
    request,           \* the request being handled (op, arguments)
    query_embedding,   \* local embedding / query_embedding
    filter_conditions, \* local filter_conditions: the conditions of Filter(must=...)
    search_result,     \* local search_result: the hits the vector index returned
    results,           \* what the service method returned
    raised,            \* the exception the service method raised, "none" when none
    provider_error,    \* history: the error a provider call raised, "none" when none
    http_status,       \* status of the route handler's response, 0 while there is none
    embed_calls,       \* history: calls of the embedding provider in this request
    qdrant_calls,      \* history: calls of the vector index in this request
    collection_at_call,\* history: the collection when the request arrived
    last_op,           \* history: per article id, its last successful operation
    search_pc,         \* "idle", "ready" (between requests), "called", "embedded",
                       \* "returned", "raised"
    \* ---- EmbeddingService: initialize, cleanup, generate_embedding(s) ----
    model,             \* self.model: "none" (None) or "loaded"
    lifecycle,         \* history: the last two of "constructed", "initialized",
                       \* "initialize_failed", "cleaned_up"
    emb_request,       \* the call being made (op, texts)
    emb_result,        \* what the call returned
    emb_raised,        \* the exception the call raised, "none" when none
    encode_calls,      \* history: calls of model.encode in this call
    emb_pc,            \* "idle", "ready", "called", "returned", "raised"
    \* ---- lifespan (main.py) ----
    lifespan_pc,       \* "idle", "start", "db_ready", "constructed", "embedding_ready",
                       \* "serving", "cleanup_search", "cleanup_ai", "stopped", "failed"
    initialized,       \* history: how often lifespan initialized each service
    \* ---- app.core.database ----
    db_pool,           \* _pool: 0 (None) or the number of a pool
    pools,             \* the pools created so far, each "open" or "closed"
    task_fn,           \* per coroutine, the function it runs
    task_pc,           \* per coroutine, where it is
    task_pool,         \* per coroutine, local: the pool whose close() it awaits (0: none)
    task_result        \* per coroutine, the pool it returned (0: none)

chunk_vars == <<text, arg_chunk_size, arg_overlap, chunk_size, overlap, start,
                chunks, windows, iters, chunk_pc>>

snippet_vars == <<content, query, max_length, pos, snip_start, snip_end, snippet, snip_pc>>

conf_vars == <<conf_response, conf_phrase, conf_sources, confidence, conf_pc>>

answer_vars == <<question, context_articles, http_client, ai_response, ai_phrase,
                 ai_body, failure, answer, ans_pc>>

search_vars == <<qdrant_client, embedding_service, collection, request, query_embedding,
                 filter_conditions, search_result, results, raised, provider_error,
                 http_status,
                 embed_calls, qdrant_calls, collection_at_call, last_op, search_pc>>

embsvc_vars == <<model, lifecycle, emb_request, emb_result, emb_raised, encode_calls, emb_pc>>

lifespan_vars == <<lifespan_pc, initialized>>

db_vars == <<db_pool, pools, task_fn, task_pc, task_pool, task_result>>

\* the state of the services and of the process
service_vars == <<search_vars, embsvc_vars, lifespan_vars, db_vars>>

vars == <<chunk_vars, snippet_vars, conf_vars, answer_vars, service_vars>>

not_chunk_vars == <<snippet_vars, conf_vars, answer_vars, service_vars>>
not_snippet_vars == <<chunk_vars, conf_vars, answer_vars, service_vars>>
not_conf_vars == <<chunk_vars, snippet_vars, answer_vars, service_vars>>
not_answer_vars == <<chunk_vars, snippet_vars, conf_vars, service_vars>>
not_search_vars == <<chunk_vars, snippet_vars, conf_vars, answer_vars,
                     embsvc_vars, lifespan_vars, db_vars>>
not_embsvc_vars == <<chunk_vars, snippet_vars, conf_vars, answer_vars,
                     search_vars, lifespan_vars, db_vars>>
not_db_vars == <<chunk_vars, snippet_vars, conf_vars, answer_vars,
                 search_vars, embsvc_vars, lifespan_vars>>

----------------------------------------------------------------------------
(* Bounds *)

MaxTextLen == 7     \* longest text given to chunk_text
MaxChunkArg == 6    \* largest chunk_size and overlap argument
MaxIter == 9        \* loop iterations followed before a run is cut off
MaxContentLen == 3  \* longest content given to _generate_snippet
MaxQueryLen == 2    \* longest query given to _generate_snippet
MaxMaxLength == 5   \* largest max_length given to _generate_snippet
MaxSources == 3     \* longest list of sources given to _calculate_confidence
MaxArticles == 4    \* longest list of context articles given to answer_question
MaxPad == 1         \* most spaces before and after a generated response
MaxLimit == 2       \* largest limit of a search request
MaxOffset == 1      \* largest offset of a search_articles request
MaxTexts == 2       \* longest list of texts given to generate_embeddings
MaxTasks == 2       \* coroutines that call the database functions concurrently
MaxPools == 3       \* most connection pools created in one run

(* Program constants *)

CHUNK_SIZE == 512
CHUNK_OVERLAP == 50

----------------------------------------------------------------------------
(* Python string primitives *)

Max(a, b) == IF a >= b THEN a ELSE b
Min(a, b) == IF a <= b THEN a ELSE b

SeqsUpTo(S, n) == UNION {[1..k -> S] : k \in 0..n}

\* Characters str.strip() removes (and str.split() splits on)
Whitespace == {" ", "\t"}

\* Python's adjustment of a slice index i for a string of length n
PyAdjust(i, n) == IF i < 0 THEN Max(i + n, 0) ELSE Min(i, n)

\* s[lo:hi]
PySlice(s, lo, hi) ==
    LET l == PyAdjust(lo, Len(s))
        h == PyAdjust(hi, Len(s))
    IN  IF l >= h THEN <<>> ELSE SubSeq(s, l + 1, h)

\* s.rfind(c, lo, hi) for a one-character c: the highest position in the
\* adjusted range holding c, or -1
PyRFindChar(s, c, lo, hi) ==
    LET l == PyAdjust(lo, Len(s))
        h == PyAdjust(hi, Len(s))
        hits == {p \in l..(h - 1) : s[p + 1] = c}
    IN  IF hits = {} THEN -1 ELSE CHOOSE p \in hits : \A q \in hits : q <= p

RECURSIVE LStrip(_)
LStrip(s) == IF s # <<>> /\ Head(s) \in Whitespace THEN LStrip(Tail(s)) ELSE s

RECURSIVE RStrip(_)
RStrip(s) ==
    IF s # <<>> /\ s[Len(s)] \in Whitespace THEN RStrip(SubSeq(s, 1, Len(s) - 1)) ELSE s

\* s.strip()
Strip(s) == RStrip(LStrip(s))

----------------------------------------------------------------------------
(* EmbeddingService.chunk_text *)

ChunkAlphabet == {"a", " ", "\t"}

\* x or default
OrDefault(x, default) == IF x = 0 THEN default ELSE x

\* end of the chunk that starts at st: the tentative end, pulled back to the
\* last space when the tentative end is before the end of the text
ChunkEnd(t, st, size) ==
    LET end == st + size
        last_space == PyRFindChar(t, " ", st, end)
    IN  IF end < Len(t) /\ last_space > st THEN last_space ELSE end

\* the cursor after a chunk that ended at end
NextStart(end, ov) == end - ov

ChunkInit ==
    /\ text \in SeqsUpTo(ChunkAlphabet, MaxTextLen)
    /\ arg_chunk_size \in 0..MaxChunkArg
    /\ arg_overlap \in 0..MaxChunkArg
    /\ chunk_size = 0
    /\ overlap = 0
    /\ start = 0
    /\ chunks = <<>>
    /\ windows = <<>>
    /\ iters = 0
    /\ chunk_pc = "call"

ChunkIdle ==
    /\ text = <<>>
    /\ arg_chunk_size = 0
    /\ arg_overlap = 0
    /\ chunk_size = 0
    /\ overlap = 0
    /\ start = 0
    /\ chunks = <<>>
    /\ windows = <<>>
    /\ iters = 0
    /\ chunk_pc = "idle"

\* lines 93-100: defaults, the short-text return, loop set-up
ChunkCall ==
    /\ chunk_pc = "call"
    /\ chunk_size' = OrDefault(arg_chunk_size, CHUNK_SIZE)
    /\ overlap' = OrDefault(arg_overlap, CHUNK_OVERLAP)
    /\ start' = 0
    /\ IF Len(text) <= chunk_size'
         THEN /\ chunks' = <<text>>
              /\ windows' = <<<<0, Len(text)>>>>
              /\ chunk_pc' = "done"
         ELSE /\ chunks' = <<>>
              /\ windows' = <<>>
              /\ chunk_pc' = "loop"
    /\ UNCHANGED <<text, arg_chunk_size, arg_overlap, iters>>
    /\ UNCHANGED not_chunk_vars

\* lines 102-119: one iteration of the while loop
ChunkIter ==
    /\ chunk_pc = "loop"
    /\ start < Len(text)
    /\ iters < MaxIter
    /\ LET end == ChunkEnd(text, start, chunk_size)
           chunk == Strip(PySlice(text, start, end))
       IN  /\ IF chunk # <<>>
                THEN /\ chunks' = Append(chunks, chunk)
                     /\ windows' = Append(windows,
                            <<PyAdjust(start, Len(text)), PyAdjust(end, Len(text))>>)
                ELSE UNCHANGED <<chunks, windows>>
           /\ start' = NextStart(end, overlap)
           /\ chunk_pc' = IF start' >= Len(text) THEN "done" ELSE "loop"
    /\ iters' = iters + 1
    /\ UNCHANGED <<text, arg_chunk_size, arg_overlap, chunk_size, overlap>>
    /\ UNCHANGED not_chunk_vars

ChunkNext == ChunkCall \/ ChunkIter


----------------------------------------------------------------------------
(* SearchService._generate_snippet *)

\* Characters of content and query.  "Idot" is U+0130 (capital I with dot
\* above), the character whose str.lower() is two characters: "i" followed
\* by "dot" (U+0307, combining dot above).
SnippetAlphabet == {"I", "i", "Idot", "dot"}

\* c.lower() for one character
LowerChar(c) ==
    CASE c = "I" -> <<"i">>
      [] c = "N" -> <<"n">>
      [] c = "S" -> <<"s">>
      [] c = "Idot" -> <<"i", "dot">>
      [] OTHER -> <<c>>

\* s.lower(): every character lowered, in order (computed by halves)
RECURSIVE Lower(_)
Lower(s) ==
    IF s = <<>> THEN <<>>
    ELSE IF Len(s) = 1 THEN LowerChar(s[1])
    ELSE LET half == Len(s) \div 2
         IN  Lower(SubSeq(s, 1, half)) \o Lower(SubSeq(s, half + 1, Len(s)))

\* s.find(sub): the lowest position where sub occurs in s, or -1
PyFind(s, sub) ==
    LET hits == {p \in 0..(Len(s) - Len(sub)) : SubSeq(s, p + 1, p + Len(sub)) = sub}
    IN  IF hits = {} THEN -1 ELSE CHOOSE p \in hits : \A q \in hits : p <= q

Ellipsis == <<".", ".", ".">>

\* Truncated with the ellipsis added whether or not anything was cut
TruncatedAlwaysMarked(c, ml) == PySlice(c, 0, ml) \o Ellipsis

\* content[:max_length] + "..." if len(content) > max_length else content
Truncated(c, ml) == IF Len(c) > ml THEN PySlice(c, 0, ml) \o Ellipsis ELSE c

\* SnippetStart with the look-back added instead of subtracted
SnippetStartSignSlip(p, ml) == Max(0, p + (ml \div 4))

\* start = max(0, pos - max_length // 4)
SnippetStart(p, ml) == Max(0, p - (ml \div 4))

\* SnippetEnd with a window one character too long
SnippetEndOffByOne(n, st, ml) == Min(n, st + ml + 1)

\* end = min(len(content), start + max_length)
SnippetEnd(n, st, ml) == Min(n, st + ml)

\* the snippet around the window [st, en)
Windowed(c, st, en) ==
    (IF st > 0 THEN Ellipsis ELSE <<>>) \o PySlice(c, st, en)
        \o (IF en < Len(c) THEN Ellipsis ELSE <<>>)

\* _generate_snippet as a function of its arguments (lines 241-269)
generate_snippet(c, q, ml) ==
    IF c = <<>> \/ q = <<>> THEN Truncated(c, ml)
    ELSE LET p == PyFind(Lower(c), Lower(q))
         IN  IF p = -1 THEN Truncated(c, ml)
             ELSE LET st == SnippetStart(p, ml)
                  IN  Windowed(c, st, SnippetEnd(Len(c), st, ml))

SnippetInit ==
    /\ content \in SeqsUpTo(SnippetAlphabet, MaxContentLen)
    /\ query \in SeqsUpTo(SnippetAlphabet, MaxQueryLen)
    /\ max_length \in (-1)..MaxMaxLength
    /\ pos = -1
    /\ snip_start = 0
    /\ snip_end = 0
    /\ snippet = <<>>
    /\ snip_pc = "call"

SnippetIdle ==
    /\ content = <<>>
    /\ query = <<>>
    /\ max_length = 0
    /\ pos = -1
    /\ snip_start = 0
    /\ snip_end = 0
    /\ snippet = <<>>
    /\ snip_pc = "idle"

\* lines 243-244: empty content or empty query
SnippetEmpty ==
    /\ snip_pc = "call"
    /\ content = <<>> \/ query = <<>>
    /\ snippet' = Truncated(content, max_length)
    /\ snip_pc' = "done"
    /\ UNCHANGED <<content, query, max_length, pos, snip_start, snip_end>>
    /\ UNCHANGED not_snippet_vars

\* lines 247-255: the query does not occur in the content
SnippetNotFound ==
    /\ snip_pc = "call"
    /\ content # <<>> /\ query # <<>>
    /\ pos' = PyFind(Lower(content), Lower(query))
    /\ pos' = -1
    /\ snippet' = Truncated(content, max_length)
    /\ snip_pc' = "done"
    /\ UNCHANGED <<content, query, max_length, snip_start, snip_end>>
    /\ UNCHANGED not_snippet_vars

\* lines 247-269: the query occurs at pos
SnippetFound ==
    /\ snip_pc = "call"
    /\ content # <<>> /\ query # <<>>
    /\ pos' = PyFind(Lower(content), Lower(query))
    /\ pos' # -1
    /\ snip_start' = SnippetStart(pos', max_length)
    /\ snip_end' = SnippetEnd(Len(content), snip_start', max_length)
    /\ snippet' = Windowed(content, snip_start', snip_end')
    /\ snip_pc' = "done"
    /\ UNCHANGED <<content, query, max_length>>
    /\ UNCHANGED not_snippet_vars

SnippetNext == SnippetEmpty \/ SnippetNotFound \/ SnippetFound

----------------------------------------------------------------------------
(* AIService._calculate_confidence *)

\* Confidences are exact fractions [num, den] with den = Thousand * k, where
\* k is the number of sources (1 when there is none), so that the mean of the
\* source scores is exact.  Source scores are integers in units of
\* 1 / ScoreUnit.
Thousand == 1000
ScoreUnit == 10

BaseConfidence == 500        \* 0.5
LengthBonus == 100           \* 0.1
SourceWeight == 300          \* 0.3
UncertaintyPenalty == 200    \* 0.2
LongResponse == 50
VeryLongResponse == 100

IDontKnow == <<"i", " ", "d", "o", "n", "'", "t", " ", "k", "n", "o", "w">>
NotSure == <<"n", "o", "t", " ", "s", "u", "r", "e">>
Unclear == <<"u", "n", "c", "l", "e", "a", "r">>
MightBe == <<"m", "i", "g", "h", "t", " ", "b", "e">>

\* uncertainty_phrases, in the order of the source
uncertainty_phrases == <<IDontKnow, NotSure, Unclear, MightBe>>

RECURSIVE SumScores(_)
SumScores(srcs) ==
    IF srcs = <<>> THEN 0 ELSE Head(srcs).score + SumScores(Tail(srcs))

\* the for loop with its break: does any phrase occur in response_lower
ContainsUncertainty(response_lower) ==
    \E i \in 1..Len(uncertainty_phrases) :
        PyFind(response_lower, uncertainty_phrases[i]) # -1

\* UncertaintyDeduction without the break: the penalty once per matching phrase
UncertaintyDeductionPerPhrase(response_lower) ==
    UncertaintyPenalty
        * Cardinality({i \in 1..Len(uncertainty_phrases) :
                          PyFind(response_lower, uncertainty_phrases[i]) # -1})

\* what the uncertainty loop subtracts, in thousandths
UncertaintyDeduction(response_lower) ==
    IF ContainsUncertainty(response_lower) THEN UncertaintyPenalty ELSE 0

\* LengthBonuses with the second bonus replacing the first instead of adding to it
LengthBonusesNotCumulative(n) ==
    IF n > VeryLongResponse THEN LengthBonus
    ELSE IF n > LongResponse THEN LengthBonus ELSE 0

\* what the two length tests add, in thousandths
LengthBonuses(n) ==
    (IF n > LongResponse THEN LengthBonus ELSE 0)
        + (IF n > VeryLongResponse THEN LengthBonus ELSE 0)

\* Clamp without the lower limit
ClampUpperOnly(num, den) == Min(den, num)

\* max(0.0, min(1.0, confidence)) on a numerator over den
Clamp(num, den) == Max(0, Min(den, num))

\* the arithmetic of _calculate_confidence for a response of n characters
\* from which the uncertainty loop deducts deduction
ConfidenceFrom(n, deduction, srcs) ==
    LET k == IF srcs = <<>> THEN 1 ELSE Len(srcs)
        den == Thousand * k
        raw == BaseConfidence * k
                 + LengthBonuses(n) * k
                 + (IF srcs # <<>>
                      THEN (SourceWeight * SumScores(srcs)) \div ScoreUnit
                      ELSE 0)
                 - deduction * k
    IN  [num |-> Clamp(raw, den), den |-> den]

calculate_confidence(response, srcs) ==
    ConfidenceFrom(Len(response), UncertaintyDeduction(Lower(response)), srcs)

\* fractions compared by cross-multiplication (denominators are positive)
FracLess(a, b) == a.num * b.den < b.num * a.den
FracLeq(a, b) == a.num * b.den <= b.num * a.den
FracEq(a, b) == a.num * b.den = b.num * a.den
Frac(n, d) == [num |-> n, den |-> d]

\* Generated responses: a body of n characters, built around a phrase when
\* the phrase fits, between lead and trail spaces.
Rep(c, n) == [i \in 1..n |-> c]

NotSureCaps == <<"N", "o", "t", " ", "S", "u", "r", "e">>
NotSureUnclear == NotSure \o <<" ">> \o Unclear
NotSureTwice == NotSure \o <<" ">> \o NotSure
NearMiss == <<"n", "o", "t", "s", "u", "r", "e">>

PhraseChoices ==
    {<<>>, IDontKnow, NotSure, NotSureCaps, Unclear, MightBe, NotSureUnclear,
     NotSureTwice, NearMiss}

\* body lengths: each threshold of the source and the first length above
\* it, and 0, 40, 60, 110
BodyLengths ==
    {t + d : t \in {10, LongResponse, VeryLongResponse}, d \in {0, 1}}
        \cup {0, 40, 60, 110}

MakeResponse(n, ph, lead, trail) ==
    LET fits == Len(ph) <= n
    IN  [text |-> Rep(" ", lead)
                    \o (IF fits THEN ph \o Rep("x", n - Len(ph)) ELSE Rep("x", n))
                    \o Rep(" ", trail),
         phrase |-> IF fits THEN ph ELSE <<>>,
         body |-> n]

Responses ==
    {MakeResponse(n, ph, lead, trail) :
        n \in BodyLengths, ph \in PhraseChoices, lead \in 0..MaxPad, trail \in 0..MaxPad}

\* sources: a title and a relevance score (in units of 1 / ScoreUnit), also
\* scores outside [0, 1].  With these scores no mean puts the exact value
\* on the 0.3 threshold where the float sum of the source is rounded off it.
Sources ==
    {[title |-> "T1", score |-> 9], [title |-> "T2", score |-> 20],
     [title |-> "T3", score |-> -30]}

SourceLists == SeqsUpTo(Sources, MaxSources)

\* context articles of answer_question
Articles == {[title |-> "T1", score |-> 9], [title |-> "T2", score |-> -30]}

ArticleLists == SeqsUpTo(Articles, MaxArticles)

NoConfidence == [num |-> 0, den |-> 1]

ConfInit ==
    /\ \E r \in Responses : conf_response = r.text /\ conf_phrase = r.phrase
    /\ conf_sources \in SourceLists
    /\ confidence = NoConfidence
    /\ conf_pc = "call"

ConfIdle ==
    /\ conf_response = <<>>
    /\ conf_phrase = <<>>
    /\ conf_sources = <<>>
    /\ confidence = NoConfidence
    /\ conf_pc = "idle"

\* lines 292-317
ConfCall ==
    /\ conf_pc = "call"
    /\ confidence' = calculate_confidence(conf_response, conf_sources)
    /\ conf_pc' = "done"
    /\ UNCHANGED <<conf_response, conf_phrase, conf_sources>>
    /\ UNCHANGED not_conf_vars

ConfNext == ConfCall

----------------------------------------------------------------------------
(* AIService.answer_question, _generate_response, _parse_answer_response *)

AnswerThreshold == 300   \* 0.3
MinAnswerLen == 10
MaxSuggestions == 3

Apology ==
    <<"I'm sorry, I couldn't process your question at the moment. Please try again later.">>

Questions == {"q1", "q2"}

\* ways the provider call of _generate_response raises once the request is sent
ProviderErrors == {"connect_error", "http_status_error", "invalid_json"}

NoAnswer ==
    [question |-> "", answer |-> <<>>, confidence |-> NoConfidence, sources |-> <<>>,
     has_answer |-> FALSE, suggestions |-> <<>>, reasoning |-> <<>>]

Titles(srcs) == [i \in 1..Len(srcs) |-> srcs[i].title]

\* sources[:3]
FirstSources(srcs) == SubSeq(srcs, 1, Min(MaxSuggestions, Len(srcs)))

\* HasAnswer with the threshold included
HasAnswerAtThreshold(conf, response) ==
    /\ FracLeq(Frac(AnswerThreshold, Thousand), conf)
    /\ Len(Strip(response)) > MinAnswerLen

\* has_answer = confidence > 0.3 and len(ai_response.strip()) > 10
HasAnswer(conf, response) ==
    /\ FracLess(Frac(AnswerThreshold, Thousand), conf)
    /\ Len(Strip(response)) > MinAnswerLen

\* Suggestions without the [:3]
SuggestionsAll(has_answer, srcs) ==
    IF ~has_answer /\ srcs # <<>> THEN Titles(srcs) ELSE <<>>

\* lines 278-280
Suggestions(has_answer, srcs) ==
    IF ~has_answer /\ srcs # <<>> THEN Titles(FirstSources(srcs)) ELSE <<>>

parse_answer_response(response, q, srcs) ==
    LET conf == calculate_confidence(response, srcs)
        has_answer == HasAnswer(conf, response)
    IN  [question |-> q,
         answer |-> Strip(response),
         confidence |-> conf,
         sources |-> srcs,
         has_answer |-> has_answer,
         suggestions |-> Suggestions(has_answer, srcs),
         reasoning |-> <<"Based on", Len(srcs), "knowledge base articles">>]

\* lines 96-104: the fallback response
Fallback(q, srcs) ==
    [question |-> q,
     answer |-> Apology,
     confidence |-> Frac(0, Thousand),
     sources |-> srcs,
     has_answer |-> FALSE,
     suggestions |-> <<>>,
     reasoning |-> <<"AI service error">>]

\* OnError as the handlers of SearchService are written: log and raise
OnErrorReraise(q, srcs) == [pc |-> "raised", answer |-> NoAnswer]

\* lines 93-104: except Exception, return the fallback response
OnError(q, srcs) == [pc |-> "done", answer |-> Fallback(q, srcs)]

AnswerInit ==
    /\ question \in Questions
    /\ context_articles \in ArticleLists
    /\ http_client \in {"none", "open", "closed"}
    /\ ai_response = <<>>
    /\ ai_phrase = <<>>
    /\ ai_body = 0
    /\ failure = "none"
    /\ answer = NoAnswer
    /\ ans_pc = "call"

AnswerIdle ==
    /\ question = ""
    /\ context_articles = <<>>
    /\ http_client = "none"
    /\ ai_response = <<>>
    /\ ai_phrase = <<>>
    /\ ai_body = 0
    /\ failure = "none"
    /\ answer = NoAnswer
    /\ ans_pc = "idle"

\* lines 80-86, 164: the prompt is built and the request sent; the call
\* awaits the provider
AnswerSend ==
    /\ ans_pc = "call"
    /\ http_client = "open"
    /\ ans_pc' = "awaiting"
    /\ UNCHANGED <<question, context_articles, http_client, ai_response, ai_phrase,
                   ai_body, failure, answer>>
    /\ UNCHANGED not_answer_vars

\* line 164 raises: http_client is None (not initialized, or cleaned up) or
\* a closed client; caught at line 93
AnswerNoClient ==
    /\ ans_pc = "call"
    /\ http_client # "open"
    /\ failure' = IF http_client = "none" THEN "no_client" ELSE "closed_client"
    /\ ans_pc' = OnError(question, context_articles).pc
    /\ answer' = OnError(question, context_articles).answer
    /\ UNCHANGED <<question, context_articles, http_client, ai_response, ai_phrase, ai_body>>
    /\ UNCHANGED not_answer_vars

\* lines 164-175 raise: the request fails, the status is an error, or the
\* body is not JSON; re-raised at line 175 and caught at line 93
AnswerProviderFails ==
    /\ ans_pc = "awaiting"
    /\ \E e \in ProviderErrors : failure' = e
    /\ ans_pc' = OnError(question, context_articles).pc
    /\ answer' = OnError(question, context_articles).answer
    /\ UNCHANGED <<question, context_articles, http_client, ai_response, ai_phrase, ai_body>>
    /\ UNCHANGED not_answer_vars

\* lines 170-171, 89: the provider's JSON holds "response": null, and
\* _parse_answer_response raises on len(None); caught at line 93
AnswerParseFails ==
    /\ ans_pc = "awaiting"
    /\ failure' = "null_response"
    /\ ans_pc' = OnError(question, context_articles).pc
    /\ answer' = OnError(question, context_articles).answer
    /\ UNCHANGED <<question, context_articles, http_client, ai_response, ai_phrase, ai_body>>
    /\ UNCHANGED not_answer_vars

\* lines 170-171, 89-91: the provider generated a text; it is parsed and returned
AnswerProviderReplies ==
    /\ ans_pc = "awaiting"
    /\ \E r \in Responses :
        /\ ai_response' = r.text
        /\ ai_phrase' = r.phrase
        /\ ai_body' = r.body
        /\ answer' = parse_answer_response(r.text, question, context_articles)
    /\ ans_pc' = "done"
    /\ UNCHANGED <<question, context_articles, http_client, failure>>
    /\ UNCHANGED not_answer_vars

AnswerNext ==
    \/ AnswerSend
    \/ AnswerNoClient
    \/ AnswerProviderFails
    \/ AnswerParseFails
    \/ AnswerProviderReplies

----------------------------------------------------------------------------
(* EmbeddingService._clean_text and generate_embedding; the vector index *)

MAX_CONTENT_LENGTH == 8000
MIN_SEARCH_SCORE == 1          \* 0.1, in units of 1 / ScoreUnit
DefaultSnippetLength == 200    \* max_length of _generate_snippet when not passed

\* characters str.split() splits on
SplitSpace == Whitespace \cup {"\n"}

\* " ".join(s.split()): the words of s, one space between them
RECURSIVE JoinSplit(_, _, _)
JoinSplit(s, acc, gap) ==
    IF s = <<>> THEN acc
    ELSE IF Head(s) \in SplitSpace THEN JoinSplit(Tail(s), acc, acc # <<>>)
    ELSE JoinSplit(Tail(s), (IF gap THEN Append(acc, " ") ELSE acc) \o <<Head(s)>>, FALSE)

\* _clean_text
clean_text(t) ==
    IF t = <<>> THEN <<>>
    ELSE LET cleaned == JoinSplit(t, <<>>, FALSE)
         IN  IF Len(cleaned) > MAX_CONTENT_LENGTH
               THEN PySlice(cleaned, 0, MAX_CONTENT_LENGTH)
               ELSE cleaned

\* model.encode(cleaned_text).tolist(): the vector is a function of the
\* cleaned text and of nothing else
Encode(cleaned) == [encoded |-> cleaned]

\* generate_embedding once the model is there (lines 41-46)
generate_embedding(t) == Encode(clean_text(t))

\* f"{title}\n\n{content}"
IndexedText(title, cont) == title \o <<"\n", "\n">> \o cont

\* {"title": title, "content": content, **metadata}: the keys of metadata win
Payload(title, cont, metadata) == metadata @@ [title |-> title, content |-> cont]

\* models.PointStruct(id=article_id, vector=embedding, payload=...)
PointStruct(article_id, embedding, payload) ==
    [id |-> article_id, vector |-> embedding, payload |-> payload]

\* Upsert that adds the point without replacing the one that has its id
UpsertAppends(coll, point) == coll \cup {point}

\* qdrant_client.upsert(points=[point]): the point replaces any point that has its id
Upsert(coll, point) == {q \in coll : q.id # point.id} \cup {point}

\* qdrant_client.delete(points_selector=PointIdsList(points=[article_id]))
Delete(coll, article_id) == {q \in coll : q.id # article_id}

\* payload.get(key, default)
PayloadGet(payload, key, default) ==
    IF key \in DOMAIN payload THEN payload[key] ELSE default

\* the values a payload holds under a key: a list's elements, or the one value
ValuesOf(payload, key) ==
    IF key = "tags" THEN payload[key] ELSE {payload[key]}

\* a point satisfies a FieldCondition: MatchValue, or MatchAny
Satisfies(payload, cond) ==
    /\ cond.key \in DOMAIN payload
    /\ IF cond.match = "value"
         THEN payload[cond.key] = cond.value
         ELSE \E i \in 1..Len(cond.any) : cond.any[i] \in ValuesOf(payload, cond.key)

\* Filter(must=conditions): every condition holds
Matching(coll, conditions) ==
    {q \in coll : \A i \in 1..Len(conditions) : Satisfies(q.payload, conditions[i])}

\* scores the vector index gives, in units of 1 / ScoreUnit
Scores == {2, 9}

\* what qdrant_client.search can return: at most limit points that satisfy
\* the filter, no point twice, every score at least the threshold, in
\* descending order of score
SearchHits(coll, conditions, limit, score_threshold) ==
    LET scored == {[id |-> q.id, score |-> sc, payload |-> q.payload] :
                      q \in Matching(coll, conditions),
                      sc \in {x \in Scores : x >= score_threshold}}
    IN  {h \in SeqsUpTo(scored, limit) :
            /\ \A i, j \in 1..Len(h) : i < j =>
                   (h[i].id # h[j].id /\ h[i].score >= h[j].score)}

----------------------------------------------------------------------------
(* SearchService._build_filter_conditions *)

\* str(x) of an identifier: its text
PyStr(x) == x.text

MatchValue(key, value) == [key |-> key, match |-> "value", value |-> value, any |-> <<>>]
MatchAny(key, any) == [key |-> key, match |-> "any", value |-> "", any |-> any]

\* no request passed (request=None)
NoOptions == [given |-> FALSE, public_only |-> FALSE, status |-> <<>>, tags |-> <<>>]

\* build_filter_conditions with the tenant condition left out when options are passed
build_filter_conditions_drops_tenant(tenant_id, project_id, req) ==
    (IF req.given THEN <<>> ELSE <<MatchValue("tenant_id", PyStr(tenant_id))>>)
        \o <<MatchValue("project_id", PyStr(project_id))>>
        \o (IF req.given /\ req.public_only THEN <<MatchValue("is_public", TRUE)>> ELSE <<>>)
        \o (IF req.given /\ req.status # <<>> THEN <<MatchAny("status", req.status)>> ELSE <<>>)
        \o (IF req.given /\ req.tags # <<>> THEN <<MatchAny("tags", req.tags)>> ELSE <<>>)

\* the list conditions of _build_filter_conditions
build_filter_conditions(tenant_id, project_id, req) ==
    <<MatchValue("tenant_id", PyStr(tenant_id)),
      MatchValue("project_id", PyStr(project_id))>>
        \o (IF req.given /\ req.public_only THEN <<MatchValue("is_public", TRUE)>> ELSE <<>>)
        \o (IF req.given /\ req.status # <<>> THEN <<MatchAny("status", req.status)>> ELSE <<>>)
        \o (IF req.given /\ req.tags # <<>> THEN <<MatchAny("tags", req.tags)>> ELSE <<>>)

----------------------------------------------------------------------------
(* SearchService and the routes of api/search.py *)

ArticleIds == {"a1", "a2"}

ContentPlain == <<"I", " ", " ", "i">>
ContentOther == <<"d", "o", "t">>

MetaPublished ==
    [tenant_id |-> "t1", project_id |-> "p1", is_public |-> TRUE, status |-> "published",
     tags |-> {"faq"}, created_at |-> "2024-01-01", updated_at |-> "2024-01-02"]

\* metadata with a title of its own
MetaDraft ==
    [tenant_id |-> "t2", project_id |-> "p1", is_public |-> FALSE, status |-> "draft",
     tags |-> {}, created_at |-> "2024-02-01", updated_at |-> "2024-02-02",
     title |-> <<"X">>]

\* metadata without the dates
MetaBare == [tenant_id |-> "t1", project_id |-> "p1"]

\* arguments title, content, metadata of index_article
IndexArguments ==
    {[title |-> <<"T">>, content |-> ContentPlain, metadata |-> MetaPublished],
     [title |-> <<"T">>, content |-> ContentOther, metadata |-> MetaPublished],
     [title |-> <<"U">>, content |-> ContentPlain, metadata |-> MetaDraft],
     [title |-> <<"U">>, content |-> ContentPlain, metadata |-> MetaBare]}

\* tenant and project identifiers of a request: non-empty, of any type with a text
TenantIds == {[kind |-> "str", text |-> "t1"], [kind |-> "uuid", text |-> "t2"]}
ProjectIds == {[kind |-> "str", text |-> "p1"]}

StatusLists == {<<>>, <<"published">>}
TagLists == {<<>>, <<"faq">>}
SearchQuery == <<"i">>
SimilarityThreshold == 5       \* threshold of the SimilarityRequest, 0.5

\* KBSearchRequest
SearchRequests ==
    {[op |-> "search_articles", query |-> SearchQuery, tenant_id |-> t, project_id |-> p,
      given |-> TRUE, public_only |-> po, status |-> st, tags |-> tg,
      limit |-> l, offset |-> o] :
        t \in TenantIds, p \in ProjectIds, po \in BOOLEAN, st \in StatusLists,
        tg \in TagLists, l \in 1..MaxLimit, o \in 0..MaxOffset}

\* SimilarityRequest
SimilarityRequests ==
    {[op |-> "search_similar", text |-> SearchQuery, tenant_id |-> t, project_id |-> p,
      limit |-> l, threshold |-> SimilarityThreshold] :
        t \in TenantIds, p \in ProjectIds, l \in 1..MaxLimit}

IndexRequests ==
    {[op |-> "index_article", article_id |-> id, title |-> a.title, content |-> a.content,
      metadata |-> a.metadata] : id \in ArticleIds, a \in IndexArguments}

DeleteRequests == {[op |-> "delete_article", article_id |-> id] : id \in ArticleIds}

NoRequest == [op |-> "none"]

\* errors of the embedding provider and of the vector index
EmbeddingErrors == {"model_not_initialized", "encode_error"}
QdrantErrors == {"connection_error", "unexpected_response"}

NoVector == [encoded |-> <<>>]
NoResults == [returned |-> FALSE, list |-> <<>>]
Returned(list) == [returned |-> TRUE, list |-> list]

NeverTouched == [op |-> "none", args |-> <<>>]

\* the keys search_articles reads with payload[...]
RequiredKeys == {"content", "title", "created_at", "updated_at"}

\* SimilarityResult(...) for every point of search_result (lines 128-137)
SimilarityResults(hits) ==
    [i \in 1..Len(hits) |->
        [id |-> hits[i].id,
         title |-> hits[i].payload["title"],
         content |-> hits[i].payload["content"],
         score |-> hits[i].score,
         type |-> "article"]]

\* KBSearchResults with the rank counted from 0
KBSearchResultsRankFromZero(hits, req) ==
    [i \in 1..Len(hits) |-> [id |-> hits[i].id, score |-> hits[i].score,
                             rank |-> req.offset + (i - 1)]]

\* KBSearchResult(...) for every point of search_result (lines 167-193);
\* enumerate counts from 0, and i here from 1
KBSearchResults(hits, req) ==
    [i \in 1..Len(hits) |->
        LET payload == hits[i].payload
        IN  [id |-> hits[i].id,
             type |-> "article",
             title |-> payload["title"],
             content |-> payload["content"],
             summary |-> PayloadGet(payload, "summary", "None"),
             score |-> hits[i].score,
             rank |-> req.offset + (i - 1) + 1,
             snippet |-> generate_snippet(payload["content"], req.query,
                                          DefaultSnippetLength),
             tags |-> PayloadGet(payload, "tags", {}),
             keywords |-> PayloadGet(payload, "keywords", {}),
             category_name |-> PayloadGet(payload, "category_name", "None"),
             author_name |-> PayloadGet(payload, "author_name", "None"),
             view_count |-> PayloadGet(payload, "view_count", 0),
             helpful_count |-> PayloadGet(payload, "helpful_count", 0),
             created_at |-> payload["created_at"],
             updated_at |-> payload["updated_at"],
             published_at |-> PayloadGet(payload, "published_at", "None")]]

\* Raise with the error swallowed and an empty list returned
ReturnEmptyOnError(e) ==
    [pc |-> "returned", results |-> Returned(<<>>), raised |-> "none", http_status |-> 200]

\* except Exception: log and raise; the route answers 500 (api/search.py)
Raise(e) == [pc |-> "raised", results |-> NoResults, raised |-> e, http_status |-> 500]

\* between two requests
AtRest == search_pc = "ready"

SearchInit ==
    /\ qdrant_client = "none"
    /\ embedding_service = "none"
    /\ collection = {}
    /\ request = NoRequest
    /\ query_embedding = NoVector
    /\ filter_conditions = <<>>
    /\ search_result = <<>>
    /\ results = NoResults
    /\ raised = "none"
    /\ provider_error = "none"
    /\ http_status = 0
    /\ embed_calls = 0
    /\ qdrant_calls = 0
    /\ collection_at_call = {}
    /\ last_op = [id \in ArticleIds |-> NeverTouched]
    /\ search_pc = "ready"

SearchIdle ==
    /\ qdrant_client = "none"
    /\ embedding_service = "none"
    /\ collection = {}
    /\ request = NoRequest
    /\ query_embedding = NoVector
    /\ filter_conditions = <<>>
    /\ search_result = <<>>
    /\ results = NoResults
    /\ raised = "none"
    /\ provider_error = "none"
    /\ http_status = 0
    /\ embed_calls = 0
    /\ qdrant_calls = 0
    /\ collection_at_call = {}
    /\ last_op = [id \in ArticleIds |-> NeverTouched]
    /\ search_pc = "idle"

\* what the request's text is embedded from (lines 68-69, 111, 149)
EmbeddedText ==
    IF request.op = "index_article" THEN IndexedText(request.title, request.content)
    ELSE IF request.op = "search_articles" THEN request.query
    ELSE request.text

\* the filter the request's search is issued with (lines 114-116, 152-154)
BuiltFilter ==
    IF request.op = "search_articles"
      THEN build_filter_conditions(request.tenant_id, request.project_id, request)
    ELSE IF request.op = "search_similar"
      THEN build_filter_conditions(request.tenant_id, request.project_id, NoOptions)
    ELSE <<>>

\* the service method raises e and its route handler answers
Raises(e) ==
    /\ search_pc' = Raise(e).pc
    /\ results' = Raise(e).results
    /\ raised' = Raise(e).raised
    /\ http_status' = Raise(e).http_status

\* the service method returns list and its route handler answers 200
Returns(list) ==
    /\ search_pc' = "returned"
    /\ results' = Returned(list)
    /\ http_status' = 200
    /\ UNCHANGED raised

\* the request has reached its call of the vector index
AtIndexStep ==
    \/ search_pc = "embedded"
    \/ search_pc = "called" /\ request.op = "delete_article"

\* SearchService.initialize (lines 24-37): both handles are assigned before
\* the collection is looked up, and stay assigned when that raises
SearchInitialize ==
    /\ AtRest
    /\ qdrant_client' = "open"
    /\ embedding_service' = "set"
    /\ UNCHANGED <<collection, request, query_embedding, filter_conditions, search_result,
                   results, raised, provider_error, http_status, embed_calls, qdrant_calls,
                   collection_at_call, last_op, search_pc>>
    /\ UNCHANGED not_search_vars

\* a route of api/search.py is called
Receive ==
    /\ AtRest
    /\ \/ \E r \in SearchRequests : request' = r
       \/ \E r \in SimilarityRequests : request' = r
       \/ \E r \in IndexRequests : request' = r
       \/ \E r \in DeleteRequests : request' = r
    /\ query_embedding' = NoVector
    /\ filter_conditions' = <<>>
    /\ search_result' = <<>>
    /\ results' = NoResults
    /\ raised' = "none"
    /\ provider_error' = "none"
    /\ http_status' = 0
    /\ embed_calls' = 0
    /\ qdrant_calls' = 0
    /\ collection_at_call' = collection
    /\ search_pc' = "called"
    /\ UNCHANGED <<qdrant_client, embedding_service, collection, last_op>>
    /\ UNCHANGED not_search_vars

\* lines 69, 111, 149 with self.embedding_service None: AttributeError
NoEmbeddingService ==
    /\ search_pc = "called"
    /\ request.op # "delete_article"
    /\ embedding_service = "none"
    /\ Raises("attribute_error")
    /\ UNCHANGED <<provider_error, qdrant_client, embedding_service, collection, request, query_embedding,
                   filter_conditions, search_result, embed_calls, qdrant_calls,
                   collection_at_call, last_op>>
    /\ UNCHANGED not_search_vars

\* lines 69, 111, 149: generate_embedding raises
EmbedFails ==
    /\ search_pc = "called"
    /\ request.op # "delete_article"
    /\ embedding_service = "set"
    /\ \E e \in EmbeddingErrors : provider_error' = e /\ Raises(e)
    /\ embed_calls' = embed_calls + 1
    /\ UNCHANGED <<qdrant_client, embedding_service, collection, request, query_embedding,
                   filter_conditions, search_result, qdrant_calls,
                   collection_at_call, last_op>>
    /\ UNCHANGED not_search_vars

\* lines 69, 111, 149: generate_embedding returns the vector
Embed ==
    /\ search_pc = "called"
    /\ request.op # "delete_article"
    /\ embedding_service = "set"
    /\ query_embedding' = generate_embedding(EmbeddedText)
    /\ embed_calls' = embed_calls + 1
    /\ search_pc' = "embedded"
    /\ UNCHANGED <<provider_error, qdrant_client, embedding_service, collection, request,
                   filter_conditions, search_result, results, raised, http_status,
                   qdrant_calls, collection_at_call, last_op>>
    /\ UNCHANGED not_search_vars

\* lines 83, 96, 119, 157 with self.qdrant_client None: AttributeError
NoQdrantClient ==
    /\ AtIndexStep
    /\ qdrant_client = "none"
    /\ filter_conditions' = BuiltFilter
    /\ Raises("attribute_error")
    /\ UNCHANGED <<provider_error, qdrant_client, embedding_service, collection, request, query_embedding,
                   search_result, embed_calls, qdrant_calls, collection_at_call, last_op>>
    /\ UNCHANGED not_search_vars

\* lines 83, 96, 119, 157: the call of the vector index raises; an upsert or
\* a delete that raised may have been applied or not
QdrantFails ==
    /\ AtIndexStep
    /\ qdrant_client = "open"
    /\ filter_conditions' = BuiltFilter
    /\ qdrant_calls' = qdrant_calls + 1
    /\ \E e \in QdrantErrors : provider_error' = e /\ Raises(e)
    /\ IF request.op = "index_article"
         THEN /\ collection' \in
                   {collection,
                    Upsert(collection,
                           PointStruct(request.article_id, query_embedding,
                                       Payload(request.title, request.content,
                                               request.metadata)))}
              /\ last_op' = [last_op EXCEPT ![request.article_id] =
                                [op |-> "unknown", args |-> <<>>]]
       ELSE IF request.op = "delete_article"
         THEN /\ collection' \in {collection, Delete(collection, request.article_id)}
              /\ last_op' = [last_op EXCEPT ![request.article_id] =
                                [op |-> "unknown", args |-> <<>>]]
       ELSE UNCHANGED <<collection, last_op>>
    /\ UNCHANGED <<qdrant_client, embedding_service, request, query_embedding,
                   search_result, embed_calls, collection_at_call>>
    /\ UNCHANGED not_search_vars

\* index_article, lines 72-88: the point is upserted
IndexArticle ==
    /\ search_pc = "embedded"
    /\ request.op = "index_article"
    /\ qdrant_client = "open"
    /\ collection' = Upsert(collection,
                            PointStruct(request.article_id, query_embedding,
                                        Payload(request.title, request.content,
                                                request.metadata)))
    /\ qdrant_calls' = qdrant_calls + 1
    /\ last_op' = [last_op EXCEPT ![request.article_id] =
                      [op |-> "index",
                       args |-> <<request.title, request.content, request.metadata>>]]
    /\ Returns(<<>>)
    /\ UNCHANGED <<provider_error, qdrant_client, embedding_service, request, query_embedding,
                   filter_conditions, search_result, embed_calls, collection_at_call>>
    /\ UNCHANGED not_search_vars

\* delete_article, lines 96-102: the point is deleted
DeleteArticle ==
    /\ search_pc = "called"
    /\ request.op = "delete_article"
    /\ qdrant_client = "open"
    /\ collection' = Delete(collection, request.article_id)
    /\ qdrant_calls' = qdrant_calls + 1
    /\ last_op' = [last_op EXCEPT ![request.article_id] = [op |-> "delete", args |-> <<>>]]
    /\ Returns(<<>>)
    /\ UNCHANGED <<provider_error, qdrant_client, embedding_service, request, query_embedding,
                   filter_conditions, search_result, embed_calls, collection_at_call>>
    /\ UNCHANGED not_search_vars

\* search_similar, lines 114-139
SearchSimilar ==
    /\ search_pc = "embedded"
    /\ request.op = "search_similar"
    /\ qdrant_client = "open"
    /\ filter_conditions' = BuiltFilter
    /\ qdrant_calls' = qdrant_calls + 1
    /\ \E h \in SearchHits(collection, filter_conditions', request.limit, request.threshold) :
        /\ search_result' = h
        /\ Returns(SimilarityResults(h))
    /\ UNCHANGED <<provider_error, qdrant_client, embedding_service, collection, request, query_embedding,
                   embed_calls, collection_at_call, last_op>>
    /\ UNCHANGED not_search_vars

\* search_articles, lines 152-195: every hit holds the keys read with payload[...]
SearchArticles ==
    /\ search_pc = "embedded"
    /\ request.op = "search_articles"
    /\ qdrant_client = "open"
    /\ filter_conditions' = BuiltFilter
    /\ qdrant_calls' = qdrant_calls + 1
    /\ \E h \in SearchHits(collection, filter_conditions', request.limit, MIN_SEARCH_SCORE) :
        /\ \A i \in 1..Len(h) : RequiredKeys \subseteq DOMAIN h[i].payload
        /\ search_result' = h
        /\ Returns(KBSearchResults(h, request))
    /\ UNCHANGED <<provider_error, qdrant_client, embedding_service, collection, request, query_embedding,
                   embed_calls, collection_at_call, last_op>>
    /\ UNCHANGED not_search_vars

\* search_articles, lines 152-199: a hit lacks a key read with payload[...];
\* the KeyError leaves the loop and the list built so far is dropped
SearchArticlesKeyError ==
    /\ search_pc = "embedded"
    /\ request.op = "search_articles"
    /\ qdrant_client = "open"
    /\ filter_conditions' = BuiltFilter
    /\ qdrant_calls' = qdrant_calls + 1
    /\ \E h \in SearchHits(collection, filter_conditions', request.limit, MIN_SEARCH_SCORE) :
        /\ \E i \in 1..Len(h) : ~(RequiredKeys \subseteq DOMAIN h[i].payload)
        /\ search_result' = h
    /\ Raises("key_error")
    /\ UNCHANGED <<provider_error, qdrant_client, embedding_service, collection, request, query_embedding,
                   embed_calls, collection_at_call, last_op>>
    /\ UNCHANGED not_search_vars

\* the route handler has answered: the locals of the request are gone
Forget ==
    /\ search_pc \in {"returned", "raised"}
    /\ request' = NoRequest
    /\ query_embedding' = NoVector
    /\ filter_conditions' = <<>>
    /\ search_result' = <<>>
    /\ results' = NoResults
    /\ raised' = "none"
    /\ provider_error' = "none"
    /\ http_status' = 0
    /\ embed_calls' = 0
    /\ qdrant_calls' = 0
    /\ collection_at_call' = {}
    /\ search_pc' = "ready"
    /\ UNCHANGED <<qdrant_client, embedding_service, collection, last_op>>
    /\ UNCHANGED not_search_vars

SearchNext ==
    \/ SearchInitialize
    \/ Receive
    \/ NoEmbeddingService
    \/ EmbedFails
    \/ Embed
    \/ NoQdrantClient
    \/ QdrantFails
    \/ IndexArticle
    \/ DeleteArticle
    \/ SearchSimilar
    \/ SearchArticles
    \/ SearchArticlesKeyError
    \/ Forget

----------------------------------------------------------------------------
(* EmbeddingService: initialize, cleanup, generate_embedding, generate_embeddings *)

\* texts given to the embedding methods
EmbTexts == {<<>>, <<"a">>, <<" ", "a", " ", "\n", "b">>}

EmbRequests ==
    {[op |-> "generate_embedding", texts |-> <<t>>] : t \in EmbTexts}
        \cup {[op |-> "generate_embeddings", texts |-> ts] : ts \in SeqsUpTo(EmbTexts, MaxTexts)}

NoEmbRequest == [op |-> "none", texts |-> <<>>]
NoEmbResult == [returned |-> FALSE, vectors |-> <<>>]

\* ModelMissing with the test left out
ModelMissingNeverTested(m) == FALSE

\* if not self.model
ModelMissing(m) == m = "none"

\* the vectors an embedding method returns: one per text (generate_embedding
\* returns the one vector itself)
Embeddings(texts) == [i \in 1..Len(texts) |-> Encode(clean_text(texts[i]))]

\* the last two events of the service's life, oldest first
Remember(event) == <<lifecycle[2], event>>

EmbeddingInit ==
    /\ model = "none"
    /\ lifecycle = <<"constructed", "constructed">>
    /\ emb_request = NoEmbRequest
    /\ emb_result = NoEmbResult
    /\ emb_raised = "none"
    /\ encode_calls = 0
    /\ emb_pc = "ready"

EmbeddingIdle ==
    /\ model = "none"
    /\ lifecycle = <<"constructed", "constructed">>
    /\ emb_request = NoEmbRequest
    /\ emb_result = NoEmbResult
    /\ emb_raised = "none"
    /\ encode_calls = 0
    /\ emb_pc = "idle"

\* initialize, lines 21-24: the model is loaded
EmbInitialize ==
    /\ emb_pc = "ready"
    /\ model' = "loaded"
    /\ lifecycle' = Remember("initialized")
    /\ UNCHANGED <<emb_request, emb_result, emb_raised, encode_calls, emb_pc>>
    /\ UNCHANGED not_embsvc_vars

\* initialize, lines 23-27: SentenceTransformer(...) raises; self.model is not assigned
EmbInitializeFails ==
    /\ emb_pc = "ready"
    /\ lifecycle' = Remember("initialize_failed")
    /\ UNCHANGED <<model, emb_request, emb_result, emb_raised, encode_calls, emb_pc>>
    /\ UNCHANGED not_embsvc_vars

\* cleanup, lines 29-33
EmbCleanup ==
    /\ emb_pc = "ready"
    /\ model' = IF model # "none" THEN "none" ELSE model
    /\ lifecycle' = Remember("cleaned_up")
    /\ UNCHANGED <<emb_request, emb_result, emb_raised, encode_calls, emb_pc>>
    /\ UNCHANGED not_embsvc_vars

\* generate_embedding or generate_embeddings is called
EmbCall ==
    /\ emb_pc = "ready"
    /\ emb_request' \in EmbRequests
    /\ emb_pc' = "called"
    /\ UNCHANGED <<model, lifecycle, emb_result, emb_raised, encode_calls>>
    /\ UNCHANGED not_embsvc_vars

\* lines 37-38, 50-51: raise RuntimeError("Embedding model not initialized")
EmbNotInitialized ==
    /\ emb_pc = "called"
    /\ ModelMissing(model)
    /\ emb_raised' = "model_not_initialized"
    /\ emb_pc' = "raised"
    /\ UNCHANGED <<model, lifecycle, emb_request, emb_result, encode_calls>>
    /\ UNCHANGED not_embsvc_vars

\* lines 41-46, 54-59: the texts are cleaned and encoded
EmbEncode ==
    /\ emb_pc = "called"
    /\ ~ModelMissing(model)
    /\ encode_calls' = encode_calls + 1
    /\ IF model = "none"
         THEN \* None.encode: AttributeError
              /\ emb_raised' = "attribute_error"
              /\ emb_pc' = "raised"
              /\ UNCHANGED emb_result
         ELSE /\ emb_result' = [returned |-> TRUE, vectors |-> Embeddings(emb_request.texts)]
              /\ emb_pc' = "returned"
              /\ UNCHANGED emb_raised
    /\ UNCHANGED <<model, lifecycle, emb_request>>
    /\ UNCHANGED not_embsvc_vars

\* lines 44, 57: model.encode raises
EmbEncodeFails ==
    /\ emb_pc = "called"
    /\ ~ModelMissing(model)
    /\ model # "none"
    /\ encode_calls' = encode_calls + 1
    /\ emb_raised' = "encode_error"
    /\ emb_pc' = "raised"
    /\ UNCHANGED <<model, lifecycle, emb_request, emb_result>>
    /\ UNCHANGED not_embsvc_vars

\* the caller has its result: the locals of the call are gone
EmbForget ==
    /\ emb_pc \in {"returned", "raised"}
    /\ emb_request' = NoEmbRequest
    /\ emb_result' = NoEmbResult
    /\ emb_raised' = "none"
    /\ encode_calls' = 0
    /\ emb_pc' = "ready"
    /\ UNCHANGED <<model, lifecycle>>
    /\ UNCHANGED not_embsvc_vars

EmbeddingNext ==
    \/ EmbInitialize
    \/ EmbInitializeFails
    \/ EmbCleanup
    \/ EmbCall
    \/ EmbNotInitialized
    \/ EmbEncode
    \/ EmbEncodeFails
    \/ EmbForget

----------------------------------------------------------------------------
(* lifespan (main.py) *)

NotInitialized == [embedding |-> 0, search |-> 0, ai |-> 0]

\* service has been initialized once more
InitializedAgain(service) == [initialized EXCEPT ![service] = @ + 1]

\* what lifespan leaves alone in every step
lifespan_rest ==
    <<chunk_vars, snippet_vars, conf_vars,
      question, context_articles, ai_response, ai_phrase, ai_body, failure, answer, ans_pc,
      collection, request, query_embedding, filter_conditions, search_result, results,
      raised, provider_error, http_status, embed_calls, qdrant_calls, collection_at_call,
      last_op,
      emb_request, emb_result, emb_raised, encode_calls, emb_pc,
      task_fn, task_pc, task_pool, task_result>>

LifespanInit ==
    /\ lifespan_pc = "start"
    /\ initialized = NotInitialized

LifespanIdle ==
    /\ lifespan_pc = "idle"
    /\ initialized = NotInitialized

\* line 31: await init_db() creates the pool
LifespanInitDb ==
    /\ lifespan_pc = "start"
    /\ pools' = Append(pools, "open")
    /\ db_pool' = Len(pools) + 1
    /\ lifespan_pc' = "db_ready"
    /\ UNCHANGED <<initialized, model, lifecycle, qdrant_client, embedding_service,
                   http_client, search_pc>>
    /\ UNCHANGED lifespan_rest

\* line 31: init_db raises, and so does lifespan
LifespanInitDbFails ==
    /\ lifespan_pc = "start"
    /\ lifespan_pc' = "failed"
    /\ UNCHANGED <<initialized, db_pool, pools, model, lifecycle, qdrant_client,
                   embedding_service, http_client, search_pc>>
    /\ UNCHANGED lifespan_rest

\* lines 34-41: the three services are constructed and stored in app.state
LifespanConstruct ==
    /\ lifespan_pc = "db_ready"
    /\ model' = "none"
    /\ lifecycle' = <<"constructed", "constructed">>
    /\ qdrant_client' = "none"
    /\ embedding_service' = "none"
    /\ http_client' = "none"
    /\ lifespan_pc' = "constructed"
    /\ UNCHANGED <<initialized, db_pool, pools, search_pc>>
    /\ UNCHANGED lifespan_rest

\* line 44: await embedding_service.initialize()
LifespanEmbeddingInitialize ==
    /\ lifespan_pc = "constructed"
    /\ model' = "loaded"
    /\ lifecycle' = Remember("initialized")
    /\ initialized' = InitializedAgain("embedding")
    /\ lifespan_pc' = "embedding_ready"
    /\ UNCHANGED <<db_pool, pools, qdrant_client, embedding_service, http_client, search_pc>>
    /\ UNCHANGED lifespan_rest

\* line 44: embedding_service.initialize() raises, and so does lifespan
LifespanEmbeddingInitializeFails ==
    /\ lifespan_pc = "constructed"
    /\ lifecycle' = Remember("initialize_failed")
    /\ lifespan_pc' = "failed"
    /\ UNCHANGED <<initialized, db_pool, pools, model, qdrant_client, embedding_service,
                   http_client, search_pc>>
    /\ UNCHANGED lifespan_rest

\* lines 45-49: await ai_service.initialize() (it opens the HTTP client and
\* swallows the errors of its model check), then yield: requests are served
LifespanAiInitialize ==
    /\ lifespan_pc = "embedding_ready"
    /\ http_client' = "open"
    /\ initialized' = InitializedAgain("ai")
    /\ lifespan_pc' = "serving"
    /\ search_pc' = "ready"
    /\ UNCHANGED <<db_pool, pools, model, lifecycle, qdrant_client, embedding_service>>
    /\ UNCHANGED lifespan_rest

\* lines 51-54: the server shuts down once no request is in progress;
\* await embedding_service.cleanup()
LifespanEmbeddingCleanup ==
    /\ lifespan_pc = "serving"
    /\ AtRest
    /\ model' = "none"
    /\ lifecycle' = Remember("cleaned_up")
    /\ lifespan_pc' = "cleanup_search"
    /\ search_pc' = "idle"
    /\ UNCHANGED <<initialized, db_pool, pools, qdrant_client, embedding_service, http_client>>
    /\ UNCHANGED lifespan_rest

\* line 55: await search_service.cleanup() (search_service.py lines 39-43)
LifespanSearchCleanup ==
    /\ lifespan_pc = "cleanup_search"
    /\ qdrant_client' = "none"
    /\ lifespan_pc' = "cleanup_ai"
    /\ UNCHANGED <<initialized, db_pool, pools, model, lifecycle, embedding_service,
                   http_client, search_pc>>
    /\ UNCHANGED lifespan_rest

\* line 56: await ai_service.cleanup() (ai_service.py lines 34-38); lifespan returns
LifespanAiCleanup ==
    /\ lifespan_pc = "cleanup_ai"
    /\ http_client' = "none"
    /\ lifespan_pc' = "stopped"
    /\ UNCHANGED <<initialized, db_pool, pools, model, lifecycle, qdrant_client,
                   embedding_service, search_pc>>
    /\ UNCHANGED lifespan_rest

\* the steps of lifespan, and between its yield and its cleanup the requests
\* of api/search.py against the search service it stored in app.state
LifespanNext ==
    \/ LifespanInitDb
    \/ LifespanInitDbFails
    \/ LifespanConstruct
    \/ LifespanEmbeddingInitialize
    \/ LifespanEmbeddingInitializeFails
    \/ LifespanAiInitialize
    \/ Receive
    \/ NoEmbeddingService
    \/ NoQdrantClient
    \/ Forget
    \/ LifespanEmbeddingCleanup
    \/ LifespanSearchCleanup
    \/ LifespanAiCleanup

----------------------------------------------------------------------------
(* app.core.database: init_db, get_db_pool, close_db *)

Tasks == 1..MaxTasks

\* the pools that are open
OpenPools == {p \in 1..Len(pools) : pools[p] = "open"}

\* the coroutines awaiting asyncpg.create_pool
Creating == {t \in Tasks : task_pc[t] = "creating"}

\* line 18: _pool = await asyncpg.create_pool(...), the value assigned
CreatedPool == Len(pools) + 1

DbInit ==
    /\ db_pool = 0
    /\ pools = <<>>
    /\ task_fn = [t \in Tasks |-> "none"]
    /\ task_pc = [t \in Tasks |-> "ready"]
    /\ task_pool = [t \in Tasks |-> 0]
    /\ task_result = [t \in Tasks |-> 0]

DbIdle ==
    /\ db_pool = 0
    /\ pools = <<>>
    /\ task_fn = [t \in Tasks |-> "none"]
    /\ task_pc = [t \in Tasks |-> "idle"]
    /\ task_pool = [t \in Tasks |-> 0]
    /\ task_result = [t \in Tasks |-> 0]

\* a coroutine can still create a pool within the bound
MayCreate == Len(pools) + Cardinality(Creating) < MaxPools

\* init_db, lines 13-18: up to the await of asyncpg.create_pool
InitDbStart(t) ==
    /\ task_pc[t] = "ready"
    /\ MayCreate
    /\ task_fn' = [task_fn EXCEPT ![t] = "init_db"]
    /\ task_pc' = [task_pc EXCEPT ![t] = "creating"]
    /\ UNCHANGED <<db_pool, pools, task_pool, task_result>>
    /\ UNCHANGED not_db_vars

\* get_db_pool, lines 30-37 with _pool set: return _pool
GetDbPoolReturns(t) ==
    /\ task_pc[t] = "ready"
    /\ db_pool # 0
    /\ task_fn' = [task_fn EXCEPT ![t] = "get_db_pool"]
    /\ task_pc' = [task_pc EXCEPT ![t] = "done"]
    /\ task_result' = [task_result EXCEPT ![t] = db_pool]
    /\ UNCHANGED <<db_pool, pools, task_pool>>
    /\ UNCHANGED not_db_vars

\* get_db_pool, lines 30-35 with _pool None: await init_db(), up to the await
\* of asyncpg.create_pool
GetDbPoolStart(t) ==
    /\ task_pc[t] = "ready"
    /\ db_pool = 0
    /\ MayCreate
    /\ task_fn' = [task_fn EXCEPT ![t] = "get_db_pool"]
    /\ task_pc' = [task_pc EXCEPT ![t] = "creating"]
    /\ UNCHANGED <<db_pool, pools, task_pool, task_result>>
    /\ UNCHANGED not_db_vars

\* lines 18-24: create_pool returns a new pool, which is assigned to _pool;
\* get_db_pool then returns _pool (line 37) without another await
CreatePoolDone(t) ==
    /\ task_pc[t] = "creating"
    /\ pools' = Append(pools, "open")
    /\ db_pool' = CreatedPool
    /\ task_result' = [task_result EXCEPT
                          ![t] = IF task_fn[t] = "get_db_pool" THEN db_pool' ELSE 0]
    /\ task_pc' = [task_pc EXCEPT ![t] = "done"]
    /\ UNCHANGED <<task_fn, task_pool>>
    /\ UNCHANGED not_db_vars

\* lines 25-27: create_pool raises; init_db raises, and get_db_pool with it
CreatePoolFails(t) ==
    /\ task_pc[t] = "creating"
    /\ task_pc' = [task_pc EXCEPT ![t] = "raised"]
    /\ UNCHANGED <<db_pool, pools, task_fn, task_pool, task_result>>
    /\ UNCHANGED not_db_vars

\* close_db, lines 40-44 with _pool None: nothing to do
CloseDbNothing(t) ==
    /\ task_pc[t] = "ready"
    /\ db_pool = 0
    /\ task_fn' = [task_fn EXCEPT ![t] = "close_db"]
    /\ task_pc' = [task_pc EXCEPT ![t] = "done"]
    /\ UNCHANGED <<db_pool, pools, task_pool, task_result>>
    /\ UNCHANGED not_db_vars

\* close_db, lines 40-45 with _pool set: up to the await of _pool.close()
CloseDbStart(t) ==
    /\ task_pc[t] = "ready"
    /\ db_pool # 0
    /\ task_fn' = [task_fn EXCEPT ![t] = "close_db"]
    /\ task_pool' = [task_pool EXCEPT ![t] = db_pool]
    /\ task_pc' = [task_pc EXCEPT ![t] = "closing"]
    /\ UNCHANGED <<db_pool, pools, task_result>>
    /\ UNCHANGED not_db_vars

\* lines 45-47: the pool is closed; _pool = None, whatever _pool names by now
CloseDbDone(t) ==
    /\ task_pc[t] = "closing"
    /\ pools' = [pools EXCEPT ![task_pool[t]] = "closed"]
    /\ db_pool' = 0
    /\ task_pc' = [task_pc EXCEPT ![t] = "done"]
    /\ UNCHANGED <<task_fn, task_pool, task_result>>
    /\ UNCHANGED not_db_vars

\* the caller has its result; the coroutine is free for the next call
DbReturn(t) ==
    /\ task_pc[t] \in {"done", "raised"}
    /\ task_fn' = [task_fn EXCEPT ![t] = "none"]
    /\ task_pc' = [task_pc EXCEPT ![t] = "ready"]
    /\ task_pool' = [task_pool EXCEPT ![t] = 0]
    /\ task_result' = [task_result EXCEPT ![t] = 0]
    /\ UNCHANGED <<db_pool, pools>>
    /\ UNCHANGED not_db_vars

DbNext ==
    \/ \E t \in Tasks : InitDbStart(t)
    \/ \E t \in Tasks : GetDbPoolReturns(t)
    \/ \E t \in Tasks : GetDbPoolStart(t)
    \/ \E t \in Tasks : CreatePoolDone(t)
    \/ \E t \in Tasks : CreatePoolFails(t)
    \/ \E t \in Tasks : CloseDbNothing(t)
    \/ \E t \in Tasks : CloseDbStart(t)
    \/ \E t \in Tasks : CloseDbDone(t)
    \/ \E t \in Tasks : DbReturn(t)

----------------------------------------------------------------------------
(* Specifications: one per operation, the other operations idle *)

\* the services are not in use
ServiceIdle == SearchIdle /\ EmbeddingIdle /\ LifespanIdle /\ DbIdle

InitChunk == ChunkInit /\ SnippetIdle /\ ConfIdle /\ AnswerIdle /\ ServiceIdle

SpecChunk == InitChunk /\ [][ChunkNext]_vars

InitSnippet == SnippetInit /\ ChunkIdle /\ ConfIdle /\ AnswerIdle /\ ServiceIdle

SpecSnippet == InitSnippet /\ [][SnippetNext]_vars

InitConf == ConfInit /\ ChunkIdle /\ SnippetIdle /\ AnswerIdle /\ ServiceIdle

SpecConf == InitConf /\ [][ConfNext]_vars

InitAnswer == AnswerInit /\ ChunkIdle /\ SnippetIdle /\ ConfIdle /\ ServiceIdle

SpecAnswer == InitAnswer /\ [][AnswerNext]_vars

\* the operations on texts and answers are not in use
CoreIdle == ChunkIdle /\ SnippetIdle /\ ConfIdle /\ AnswerIdle

InitSearch == SearchInit /\ CoreIdle /\ EmbeddingIdle /\ LifespanIdle /\ DbIdle

SpecSearch == InitSearch /\ [][SearchNext]_vars

InitEmbedding == EmbeddingInit /\ CoreIdle /\ SearchIdle /\ LifespanIdle /\ DbIdle

SpecEmbedding == InitEmbedding /\ [][EmbeddingNext]_vars

InitLifespan == LifespanInit /\ CoreIdle /\ SearchIdle /\ EmbeddingIdle /\ DbIdle

SpecLifespan == InitLifespan /\ [][LifespanNext]_vars

InitDb == DbInit /\ CoreIdle /\ SearchIdle /\ EmbeddingIdle /\ LifespanIdle

SpecDb == InitDb /\ [][DbNext]_vars

----------------------------------------------------------------------------
(* Properties of chunk_text *)

\* the inputs the chunking contract is stated for
ChunkPre == Len(text) > chunk_size /\ 0 < overlap /\ overlap < chunk_size

\* C1: for a text longer than chunk_size and 0 < overlap < chunk_size, every
\* iteration of the loop leaves the cursor start strictly greater than it
\* found it, so the loop is left after finitely many iterations.
C1_CursorAdvances ==
    [][(chunk_pc = "loop" /\ ChunkPre) => start' > start]_vars

Covered(p) == \E i \in 1..Len(windows) : windows[i][1] <= p /\ p < windows[i][2]

\* C2: when chunk_text returns for a text longer than chunk_size and
\* 0 < overlap < chunk_size, every non-whitespace position of the text lies
\* in the window of an appended chunk.
C2_Coverage ==
    (chunk_pc = "done" /\ ChunkPre) =>
        \A p \in 0..(Len(text) - 1) : text[p + 1] \notin Whitespace => Covered(p)

\* C3: no chunk in the list is longer than chunk_size, whatever the text,
\* chunk_size and overlap.
C3_ChunkLength ==
    chunk_pc \in {"loop", "done"} =>
        \A i \in 1..Len(chunks) : Len(chunks[i]) <= chunk_size

----------------------------------------------------------------------------
(* Properties of _generate_snippet *)

\* the returned snippet contains the query, case-insensitively
SnippetShowsQuery == PyFind(Lower(snippet), Lower(query)) # -1

\* lower() changes the length of neither the content nor the query
LowerKeepsLength ==
    Len(Lower(content)) = Len(content) /\ Len(Lower(query)) = Len(query)

C5_SnippetLength ==
    (snip_pc = "done" /\ max_length >= 0) => Len(snippet) <= max_length + 6

\* a snippet of exactly max_length + 6 characters: a full window with both
\* ellipses
C5_Witness ==
    /\ snip_pc = "done" /\ max_length >= 0 /\ pos # -1
    /\ Len(snippet) = max_length + 6

----------------------------------------------------------------------------
(* Properties of _calculate_confidence *)

\* the response was built around a phrase that holds an uncertainty phrase
SaysUncertain(ph) == ph \notin {<<>>, NearMiss}

\* C9: the returned confidence lies in [0, 1] and equals
\* clamp(0.5 + (0.1 if len > 50) + (0.1 if len > 100)
\*       + 0.3 * mean(scores) if there are sources
\*       - (0.2 if an uncertainty phrase occurs)),
\* also for scores below 0 or above 1.
C9_ConfidenceValue ==
    conf_pc = "done" =>
        LET n == Len(conf_sources)
            k == IF n = 0 THEN 1 ELSE n
            len == Len(conf_response)
            \* the unclamped value times 1000 * k (scores are in tenths)
            raw == 500 * k
                     + (IF len > 50 THEN 100 * k ELSE 0)
                     + (IF len > 100 THEN 100 * k ELSE 0)
                     + (IF n > 0 THEN 30 * SumScores(conf_sources) ELSE 0)
                     - (IF SaysUncertain(conf_phrase) THEN 200 * k ELSE 0)
        IN  /\ confidence.den = 1000 * k
            /\ 0 <= confidence.num /\ confidence.num <= confidence.den
            /\ confidence.num =
                 (IF raw < 0 THEN 0 ELSE IF raw > 1000 * k THEN 1000 * k ELSE raw)

\* a confidence clamped up to 0: sources with negative scores and an
\* uncertainty phrase
C9_Witness ==
    /\ conf_pc = "done" /\ confidence.num = 0
    /\ SaysUncertain(conf_phrase)
    /\ \E i \in 1..Len(conf_sources) : conf_sources[i].score < 0

\* what _calculate_confidence reads off each response: its length and the
\* deduction of the uncertainty loop
ResponseFacts ==
    {[len |-> Len(r.text),
      deduction |-> UncertaintyDeduction(Lower(r.text)),
      uncertain |-> SaysUncertain(r.phrase)] : r \in Responses}

\* C10: with the same sources and the same presence or absence of an
\* uncertainty phrase, a response at least as long as another has at least
\* the other's confidence; and a response of more than 100 characters has 0.2
\* more than one of at most 50 when neither value is clamped (the two length
\* bonuses add up).
C10_LengthMonotone ==
    conf_pc = "done" =>
        \A f \in ResponseFacts :
            (f.uncertain = SaysUncertain(conf_phrase) /\ f.len <= Len(conf_response)) =>
                LET other == ConfidenceFrom(f.len, f.deduction, conf_sources)
                    inside(c) == 0 < c.num /\ c.num < c.den
                    k == IF conf_sources = <<>> THEN 1 ELSE Len(conf_sources)
                IN  /\ other.num <= confidence.num
                    /\ (f.len <= 50 /\ Len(conf_response) > 100
                          /\ inside(other) /\ inside(confidence))
                         => confidence.num - other.num = 200 * k

\* a response of more than 100 characters whose confidence is not clamped,
\* with sources
C10_Witness ==
    /\ conf_pc = "done" /\ Len(conf_response) > 100
    /\ conf_sources # <<>>
    /\ 0 < confidence.num /\ confidence.num < confidence.den

\* the confidences of the responses of the same length as the returned one
\* that hold no uncertainty phrase, for the same sources
SameLengthWithoutPhrase ==
    {ConfidenceFrom(f.len, f.deduction, conf_sources) :
        f \in {g \in ResponseFacts : ~g.uncertain /\ g.len = Len(conf_response)}}

----------------------------------------------------------------------------
(* Properties of answer_question *)

\* the returned confidence is above 0.3 and the generated text, without its
\* outer spaces, is longer than 10 characters
ConfidentAndLong ==
    /\ 10 * answer.confidence.num > 3 * answer.confidence.den
    /\ ai_body > 10

\* C6: a returned Answer has has_answer = true only when its confidence is
\* above 0.3 and the trimmed generated text is longer than 10 characters; on
\* the normal path has_answer is true exactly when both hold.
C6_HasAnswerGate ==
    ans_pc = "done" =>
        /\ answer.has_answer => ConfidentAndLong
        /\ failure = "none" => (answer.has_answer <=> ConfidentAndLong)

\* a confidence of exactly 0.3 with a long enough text: no answer
C6_Witness ==
    /\ ans_pc = "done" /\ failure = "none"
    /\ 10 * answer.confidence.num = 3 * answer.confidence.den
    /\ ai_body > 10
    /\ ~answer.has_answer

\* the suggestions are the titles of the first min(3, n) sources, in order
SuggestsFirstTitles ==
    /\ Len(answer.suggestions) = Min(3, Len(context_articles))
    /\ \A i \in 1..Len(answer.suggestions) :
           answer.suggestions[i] = context_articles[i].title

\* C7 (as stated): every returned Answer with has_answer = false suggests the
\* titles of the first min(3, n) sources.
C7_SuggestionsWhenNoAnswer ==
    (ans_pc = "done" /\ ~answer.has_answer) => SuggestsFirstTitles

\* C7 (amended): an Answer returned on the normal path with has_answer =
\* false suggests the titles of the first min(3, n) sources, in order; the
\* fallback Answer suggests nothing.
C7_SuggestionsOnNormalPath ==
    ans_pc = "done" =>
        /\ (failure = "none" /\ ~answer.has_answer) => SuggestsFirstTitles
        /\ failure # "none" => answer.suggestions = <<>>

\* no answer on the normal path, with more sources than are suggested
C7_Witness ==
    /\ ans_pc = "done" /\ failure = "none" /\ ~answer.has_answer
    /\ Len(context_articles) > 3
    /\ Len(answer.suggestions) = 3

\* C8: answer_question never raises; whenever a step of the flow fails it
\* returns has_answer = false, confidence 0.0, the apology text and the
\* reasoning note, with the question and the sources as they were passed.
C8_FallbackOnFailure ==
    /\ ans_pc # "raised"
    /\ (ans_pc = "done" /\ failure # "none") =>
           /\ answer.has_answer = FALSE
           /\ answer.confidence.num = 0
           /\ answer.answer = Apology
           /\ answer.reasoning = <<"AI service error">>
           /\ answer.question = question
           /\ answer.sources = context_articles

\* the provider answered with an error status, with sources passed
C8_Witness ==
    /\ ans_pc = "done" /\ failure = "http_status_error"
    /\ context_articles # <<>>

----------------------------------------------------------------------------
(* Properties of search_articles, search_similar and _build_filter_conditions *)

\* the search of a search_articles request has returned its hits
ArticlesSearched ==
    /\ request.op = "search_articles"
    /\ search_pc \in {"returned", "raised"}
    /\ qdrant_calls = 1
    /\ provider_error = "none"

\* the result list follows the hits: as many entries, in their order, entry
\* i (counted from 0) with the id and score of hit i and rank offset + i + 1
ResultsFollowHits ==
    /\ results.returned
    /\ Len(results.list) = Len(search_result)
    /\ \A k \in 1..Len(search_result) :
          /\ results.list[k].id = search_result[k].id
          /\ results.list[k].score = search_result[k].score
          /\ results.list[k].rank = request.offset + (k - 1) + 1
          /\ results.list[k].rank >= 1
    /\ \A j, k \in 1..Len(results.list) :
          j < k => results.list[j].rank < results.list[k].rank

\* every hit holds the keys search_articles reads without a default
HitsHoldRequiredKeys ==
    \A k \in 1..Len(search_result) :
        {"title", "content", "created_at", "updated_at"} \subseteq DOMAIN search_result[k].payload

\* C12 (as stated): for every search_articles call with offset >= 0 whose
\* search returns hits, the result list has one entry per hit, in order, with
\* the hit's id and score and rank = offset + i + 1.
C12_ResultsForEveryHit ==
    (ArticlesSearched /\ request.offset >= 0) => ResultsFollowHits

\* C12 (amended): for every search_articles call with offset >= 0 whose
\* search returns hits that all hold title, content, created_at and
\* updated_at, the result list has one entry per hit, in order, with the
\* hit's id and score and rank = offset + i + 1, so ranks are >= 1 and
\* strictly increasing; when a hit lacks one of these keys the call raises
\* KeyError and returns no list.
C12_RanksFollowHits ==
    (ArticlesSearched /\ request.offset >= 0) =>
        IF HitsHoldRequiredKeys
          THEN search_pc = "returned" /\ ResultsFollowHits
          ELSE search_pc = "raised" /\ raised = "key_error" /\ ~results.returned

\* two hits returned for a request with a positive offset
C12_Witness ==
    /\ ArticlesSearched /\ search_pc = "returned"
    /\ request.offset > 0
    /\ Len(results.list) = 2

\* the request is a search whose filter has been built
FilterBuilt ==
    /\ request.op \in {"search_articles", "search_similar"}
    /\ filter_conditions # <<>>

\* the conditions of the filter on a key
ConditionsOn(key) ==
    {k \in 1..Len(filter_conditions) : filter_conditions[k].key = key}

\* the filter holds exactly one condition on key, an exact match of value
ExactMatchOn(key, value) ==
    /\ Cardinality(ConditionsOn(key)) = 1
    /\ \A k \in ConditionsOn(key) :
          filter_conditions[k].match = "value" /\ filter_conditions[k].value = value

\* the filter holds exactly one condition on key, a match of any of values
MatchAnyOn(key, values) ==
    /\ Cardinality(ConditionsOn(key)) = 1
    /\ \A k \in ConditionsOn(key) :
          filter_conditions[k].match = "any" /\ filter_conditions[k].any = values

\* the options of the request: those of a search_articles request, none for
\* search_similar
OptionsOf(r) ==
    IF r.op = "search_articles"
      THEN [public_only |-> r.public_only, status |-> r.status, tags |-> r.tags]
      ELSE [public_only |-> FALSE, status |-> <<>>, tags |-> <<>>]

\* C13: every filter built is a conjunction that holds an exact-match
\* condition on tenant_id and one on project_id, with the non-empty texts of
\* the request's identifiers, an is_public = true condition exactly when
\* public_only is set, a match-any status condition exactly when status is
\* non-empty, a match-any tags condition exactly when tags is non-empty, and
\* nothing else; and every search issued carries such a filter.
C13_FilterAlwaysScoped ==
    /\ (request.op \in {"search_articles", "search_similar"} /\ qdrant_calls > 0)
          => filter_conditions # <<>>
    /\ FilterBuilt =>
          LET opt == OptionsOf(request)
          IN  /\ ExactMatchOn("tenant_id", request.tenant_id.text)
              /\ request.tenant_id.text # ""
              /\ ExactMatchOn("project_id", request.project_id.text)
              /\ request.project_id.text # ""
              /\ IF opt.public_only THEN ExactMatchOn("is_public", TRUE)
                                    ELSE ConditionsOn("is_public") = {}
              /\ IF opt.status # <<>> THEN MatchAnyOn("status", opt.status)
                                      ELSE ConditionsOn("status") = {}
              /\ IF opt.tags # <<>> THEN MatchAnyOn("tags", opt.tags)
                                    ELSE ConditionsOn("tags") = {}
              /\ \A k \in 1..Len(filter_conditions) :
                    filter_conditions[k].key \in
                        {"tenant_id", "project_id", "is_public", "status", "tags"}

\* a search_articles request with every option set, issued and answered with a hit
C13_Witness ==
    /\ request.op = "search_articles" /\ search_pc = "returned"
    /\ Len(filter_conditions) = 5
    /\ search_result # <<>>

----------------------------------------------------------------------------
(* Properties of index_article and delete_article *)

PointsOf(coll, id) == {q \in coll : q.id = id}

\* the point is the one index_article(id, title, content, metadata) stores:
\* the vector of title, blank line, content; the payload title, content and
\* metadata, a key of metadata taking precedence
PointOfCall(q, args) ==
    LET title == args[1]
        cont == args[2]
        metadata == args[3]
    IN  /\ q.vector = generate_embedding(title \o <<"\n", "\n">> \o cont)
        /\ q.vector.encoded # <<>>
        /\ DOMAIN q.payload = DOMAIN metadata \cup {"title", "content"}
        /\ \A key \in DOMAIN metadata : q.payload[key] = metadata[key]
        /\ "title" \notin DOMAIN metadata => q.payload["title"] = title
        /\ "content" \notin DOMAIN metadata => q.payload["content"] = cont

\* C14: the collection holds at most one point per article id; an id whose
\* last operation was a successful index_article is present with the vector
\* and payload of that call, an id whose last operation was a successful
\* delete_article (or that was never indexed) is absent; a delete_article
\* that returns removes exactly the points of its id, so that on an absent
\* id it returns without error and leaves the collection as it was.
C14_UpsertAndDelete ==
    /\ \A id \in ArticleIds :
          /\ Cardinality(PointsOf(collection, id)) <= 1
          /\ last_op[id].op = "index" =>
                /\ Cardinality(PointsOf(collection, id)) = 1
                /\ \A q \in PointsOf(collection, id) : PointOfCall(q, last_op[id].args)
          /\ last_op[id].op \in {"none", "delete"} => PointsOf(collection, id) = {}
    /\ (request.op = "delete_article" /\ search_pc = "returned") =>
          /\ raised = "none" /\ http_status = 200
          /\ collection = collection_at_call \ PointsOf(collection_at_call, request.article_id)
          /\ PointsOf(collection_at_call, request.article_id) = {}
                => collection = collection_at_call

\* an article indexed again with other arguments: its new point has replaced the old
C14_Witness ==
    /\ request.op = "index_article" /\ search_pc = "returned"
    /\ \E old \in PointsOf(collection_at_call, request.article_id) :
          old \notin collection /\ old.vector # query_embedding

----------------------------------------------------------------------------
(* Properties of the failure paths of SearchService *)

\* C15: when the embedding provider or the vector index fails during
\* search_articles, search_similar, index_article or delete_article, the
\* method raises that error and its route answers 500: nothing is returned,
\* each provider has been called at most once, and when the embedding failed
\* the vector index has not been called and the collection is as it was.
C15_ProviderErrorsPropagate ==
    /\ embed_calls <= 1
    /\ qdrant_calls <= 1
    /\ provider_error # "none" =>
          /\ search_pc = "raised"
          /\ raised = provider_error
          /\ results = [returned |-> FALSE, list |-> <<>>]
          /\ http_status = 500
          /\ provider_error \in EmbeddingErrors =>
                /\ qdrant_calls = 0
                /\ collection = collection_at_call

\* the embedding of an index_article failed while the collection holds a point
C15_Witness ==
    /\ request.op = "index_article" /\ search_pc = "raised"
    /\ provider_error = "encode_error"
    /\ collection # {}

----------------------------------------------------------------------------
(* EmbeddingService: the model guard *)

\* an embedding method has finished, by returning or by raising
EmbCallOver == emb_pc \in {"returned", "raised"}

\* the events after which no model can be held: construction and cleanup, and
\* a failed initialize that follows one of them
NoModelSince ==
    \/ lifecycle[2] \in {"constructed", "cleaned_up"}
    \/ /\ lifecycle[2] = "initialize_failed"
       /\ lifecycle[1] \in {"constructed", "cleaned_up"}

\* C17: generate_embedding and generate_embeddings raise "Embedding model not
\* initialized" without calling the model whenever self.model is None, which it
\* is before initialize, after a failed initialize and after every cleanup (a
\* repeated one included); while the model is loaded they never raise that error.
C17_ModelGuard ==
    /\ NoModelSince => model = "none"
    /\ lifecycle[2] = "initialized" => model = "loaded"
    /\ (EmbCallOver /\ model = "none") =>
           /\ emb_pc = "raised"
           /\ emb_raised = "model_not_initialized"
           /\ encode_calls = 0
           /\ ~emb_result.returned
    /\ (EmbCallOver /\ model = "loaded") =>
           /\ emb_raised # "model_not_initialized"
           /\ emb_pc = "returned" =>
                  /\ encode_calls = 1
                  /\ Len(emb_result.vectors) = Len(emb_request.texts)

\* generate_embeddings has raised the guard's error after cleanup was called twice
C17_Witness ==
    /\ lifecycle = <<"cleaned_up", "cleaned_up">>
    /\ emb_request.op = "generate_embeddings"
    /\ Len(emb_request.texts) = MaxTexts
    /\ emb_pc = "raised"
    /\ emb_raised = "model_not_initialized"
    /\ encode_calls = 0

----------------------------------------------------------------------------
(* lifespan: the handles while requests are served *)

\* lifespan has reached its yield and has not begun its cleanup
Serving == lifespan_pc = "serving"

\* C16: while requests are served, the embedding model, the vector-index client
\* with the search service's embedding-service reference, and the generation
\* HTTP client have each been initialized exactly once and are in place, and no
\* search, index or delete request runs against a missing handle.
C16_HandlesInitializedOnce ==
    Serving =>
        /\ model = "loaded"
        /\ qdrant_client = "open"
        /\ embedding_service = "set"
        /\ http_client = "open"
        /\ initialized = [embedding |-> 1, search |-> 1, ai |-> 1]
        /\ raised # "attribute_error"

----------------------------------------------------------------------------
(* _generate_snippet: the snippet, character by character *)

\* the first n characters of s (all of s when it has no more, none when n <= 0)
FirstChars(s, n) == [i \in 1..Min(Max(n, 0), Len(s)) |-> s[i]]

\* the characters of s at the positions st, ..., en - 1 that s has
CharsBetween(s, st, en) == [i \in 1..Max(0, Min(en, Len(s)) - st) |-> s[st + i]]

\* the positions of content where a stretch of characters begins that equals
\* the query when both are lowercased
OccurrencesInContent ==
    {p \in 0..Len(content) :
        \E e \in p..Len(content) : Lower(CharsBetween(content, p, e)) = Lower(query)}

\* the position of the first such occurrence
FirstOccurrence == CHOOSE p \in OccurrencesInContent : \A o \in OccurrencesInContent : p <= o

\* the position of the lowercased query in the lowercased content, or -1
LoweredPos == PyFind(Lower(content), Lower(query))

\* the snippet cut around position p: the window of max_length characters
\* from max(0, p - max_length div 4), with an ellipsis on each side that is cut
SnippetAround(p) ==
    LET st == Max(0, p - (max_length \div 4))
        en == Min(Len(content), st + max_length)
    IN  (IF st > 0 THEN Ellipsis ELSE <<>>)
            \o CharsBetween(content, st, en)
            \o (IF en < Len(content) THEN Ellipsis ELSE <<>>)

\* the first max_length characters, with an ellipsis when the content is longer
LeadingSnippet ==
    FirstChars(content, max_length)
        \o (IF Len(content) > max_length THEN Ellipsis ELSE <<>>)

----------------------------------------------------------------------------
(* app.core.database: one pool, none lost *)

\* C19: under every interleaving of init_db, get_db_pool and close_db, at most
\* one pool is open at a time, and an open pool is the one _pool names (none is
\* overwritten while open and left behind, out of the reach of close_db).
C19_OnePoolNoneLost ==
    /\ Cardinality(OpenPools) <= 1
    /\ \A p \in OpenPools : db_pool = p
====
